---- MODULE Spec2Model ----
(***************************************************************************)
(* harness/adapters/swebench/run.py: the stub SWE-bench runner.           *)
(*                                                                         *)
(* main() reads the wall clock, builds a fixed record, ensures the results *)
(* directory, writes the record to swebench-<timestamp>.json and prints    *)
(* it.  Each call of main() is a process of the model; calls may follow    *)
(* one another (SpecSeq) or interleave as separate processes (Spec).       *)
(* Texts (timestamps, file names, JSON) are sequences of one-character     *)
(* strings, so that formatting and parsing are computed, not assumed.      *)
(***************************************************************************)
EXTENDS Integers, Sequences, FiniteSets, TLC

(* ---- bounds ---------------------------------------------------------- *)

\* number of calls of main()
NumCalls == 2

\* the wall clock runs over 0 .. MaxClock seconds after Epoch
MaxClock == 1

Procs == 1 .. NumCalls

(* ---- time.strftime("%Y%m%d-%H%M%S") ---------------------------------- *)

\* local time at clock = 0: one second before midnight, so that the window
\* of the model crosses a change of every time field and of the day
Epoch == [year |-> 2026, mon |-> 11, mday |-> 5, hour |-> 23, min |-> 59, sec |-> 59]

DigitChars == <<"0", "1", "2", "3", "4", "5", "6", "7", "8", "9">>

Digit(d) == DigitChars[d + 1]

\* %m, %d, %H, %M, %S: two digits, zero padded
Pad2(n) == <<Digit((n \div 10) % 10), Digit(n % 10)>>

\* %Y: four digits
Pad4(n) == <<Digit((n \div 1000) % 10), Digit((n \div 100) % 10)>> \o Pad2(n % 100)

\* the broken-down local time t seconds after Epoch (t stays within the month)
localtime(t) ==
  LET s == Epoch.hour * 3600 + Epoch.min * 60 + Epoch.sec + t
  IN  [year |-> Epoch.year, mon |-> Epoch.mon,
       mday |-> Epoch.mday + (s \div 86400),
       hour |-> (s % 86400) \div 3600,
       min  |-> (s % 3600) \div 60,
       sec  |-> s % 60]

strftime(t) ==
  LET tm == localtime(t)
  IN  Pad4(tm.year) \o Pad2(tm.mon) \o Pad2(tm.mday) \o <<"-">>
        \o Pad2(tm.hour) \o Pad2(tm.min) \o Pad2(tm.sec)

(* ---- the record and its JSON serialisation ---------------------------- *)

JStr(s) == [type |-> "str", val |-> s]
JInt(n) == [type |-> "int", val |-> n]

K_timestamp == <<"t", "i", "m", "e", "s", "t", "a", "m", "p">>
K_instances == <<"i", "n", "s", "t", "a", "n", "c", "e", "s">>
K_resolved  == <<"r", "e", "s", "o", "l", "v", "e", "d">>
K_score     == <<"s", "c", "o", "r", "e">>

\* a slip in the dict literal: score set to 1
BuildResultScoreOne(t) ==
  << <<K_timestamp, JStr(t)>>,
     <<K_instances, JInt(0)>>,
     <<K_resolved,  JInt(0)>>,
     <<K_score,     JInt(1)>> >>

\* a slip in the dict literal: the score item left out
BuildResultNoScore(t) ==
  << <<K_timestamp, JStr(t)>>,
     <<K_instances, JInt(0)>>,
     <<K_resolved,  JInt(0)>> >>

\* the dict literal of main(): an ordered sequence of <<key, value>> items
BuildResult(t) ==
  << <<K_timestamp, JStr(t)>>,
     <<K_instances, JInt(0)>>,
     <<K_resolved,  JInt(0)>>,
     <<K_score,     JInt(0)>> >>

RECURSIVE IntRepr(_)
\* repr of an int
IntRepr(n) ==
  IF n < 0 THEN <<"-">> \o IntRepr(0 - n)
  ELSE IF n < 10 THEN <<Digit(n)>>
  ELSE IntRepr(n \div 10) \o <<Digit(n % 10)>>

RECURSIVE Escape(_)
\* the JSON string escapes of the characters a text of the model can hold
Escape(s) ==
  IF s = <<>> THEN <<>>
  ELSE (IF Head(s) \in {"\"", "\\"} THEN <<"\\", Head(s)>> ELSE <<Head(s)>>)
         \o Escape(Tail(s))

EncodeValue(v) ==
  IF v.type = "str" THEN <<"\"">> \o Escape(v.val) \o <<"\"">>
  ELSE IntRepr(v.val)

\* one "key": value item; the key separator is ": " with and without indent
EncodeItem(item) ==
  EncodeValue(JStr(item[1])) \o <<":", " ">> \o EncodeValue(item[2])

RECURSIVE Spaces(_)
Spaces(n) == IF n = 0 THEN <<>> ELSE <<" ">> \o Spaces(n - 1)

RECURSIVE JoinItems(_, _)
JoinItems(items, sep) ==
  IF items = <<>> THEN <<>>
  ELSE IF Len(items) = 1 THEN EncodeItem(items[1])
  ELSE EncodeItem(items[1]) \o sep \o JoinItems(Tail(items), sep)

\* a slip in the indented form: items separated by the line break alone
DumpsNoComma(obj, indent) ==
  IF obj = <<>> THEN <<"{", "}">>
  ELSE IF indent < 0
    THEN <<"{">> \o JoinItems(obj, <<",", " ">>) \o <<"}">>
    ELSE <<"{", "\n">> \o Spaces(indent)
           \o JoinItems(obj, <<"\n">> \o Spaces(indent))
           \o <<"\n", "}">>

\* json.dumps(obj, indent=indent); indent < 0 stands for indent=None
Dumps(obj, indent) ==
  IF obj = <<>> THEN <<"{", "}">>
  ELSE IF indent < 0
    THEN <<"{">> \o JoinItems(obj, <<",", " ">>) \o <<"}">>
    ELSE <<"{", "\n">> \o Spaces(indent)
           \o JoinItems(obj, <<",", "\n">> \o Spaces(indent))
           \o <<"\n", "}">>

\* a slip in the file name: the timestamp left out
FileNameFixed(t) ==
  <<"s", "w", "e", "b", "e", "n", "c", "h", "-">> \o <<".", "j", "s", "o", "n">>

\* f"swebench-{ts}.json"
FileName(t) ==
  <<"s", "w", "e", "b", "e", "n", "c", "h", "-">> \o t \o <<".", "j", "s", "o", "n">>

\* a file just created or truncated by open(..., "w")
Empty == <<>>

(* ---- json.loads, by which a reader recovers the record ---------------- *)

IsWs(c) == c \in {" ", "\n", "\t", "\r"}

IsDigit(c) == \E d \in 0 .. 9 : c = Digit(d)

DigitValue(c) == CHOOSE d \in 0 .. 9 : c = Digit(d)

\* a failed scan: position 0
Fail == [val |-> JInt(0), next |-> 0]

RECURSIVE SkipWs(_, _)
\* the first position at or after i that holds no white space
SkipWs(s, i) == IF i <= Len(s) /\ IsWs(s[i]) THEN SkipWs(s, i + 1) ELSE i

RECURSIVE ScanString(_, _, _)
\* the string whose opening quote precedes position i
ScanString(s, i, acc) ==
  IF i > Len(s) THEN Fail
  ELSE IF s[i] = "\"" THEN [val |-> JStr(acc), next |-> i + 1]
  ELSE IF s[i] = "\\"
    THEN IF i + 1 <= Len(s) /\ s[i + 1] \in {"\"", "\\"}
           THEN ScanString(s, i + 2, Append(acc, s[i + 1]))
           ELSE Fail
  ELSE IF s[i] = "\n" THEN Fail
  ELSE ScanString(s, i + 1, Append(acc, s[i]))

RECURSIVE ScanInt(_, _, _)
\* the run of digits from position i on
ScanInt(s, i, acc) ==
  IF i <= Len(s) /\ IsDigit(s[i])
    THEN ScanInt(s, i + 1, acc * 10 + DigitValue(s[i]))
    ELSE [val |-> JInt(acc), next |-> i]

\* a string or a non-negative integer at position i
ScanValue(s, i) ==
  IF i = 0 \/ i > Len(s) THEN Fail
  ELSE IF s[i] = "\"" THEN ScanString(s, i + 1, <<>>)
  ELSE IF IsDigit(s[i]) THEN ScanInt(s, i, 0)
  ELSE Fail

Invalid == [ok |-> FALSE, items |-> <<>>]

RECURSIVE ScanMembers(_, _, _)
\* "key": value items separated by commas, up to the closing brace, and
\* nothing but white space after it
ScanMembers(s, i, acc) ==
  LET k == ScanValue(s, SkipWs(s, i))
      c == SkipWs(s, k.next)
      v == ScanValue(s, SkipWs(s, c + 1))
      e == SkipWs(s, v.next)
      got == Append(acc, <<k.val.val, v.val>>)
  IN  IF k.next = 0 \/ k.val.type # "str" THEN Invalid
      ELSE IF c > Len(s) \/ s[c] # ":" THEN Invalid
      ELSE IF v.next = 0 \/ e > Len(s) THEN Invalid
      ELSE IF s[e] = "," THEN ScanMembers(s, e + 1, got)
      ELSE IF s[e] = "}" /\ SkipWs(s, e + 1) > Len(s)
        THEN [ok |-> TRUE, items |-> got]
      ELSE Invalid

\* json.loads(s) of an object of strings and integers: its items in the
\* order of the text, or Invalid
Loads(s) ==
  LET i == SkipWs(s, 1)
      j == SkipWs(s, i + 1)
  IN  IF i > Len(s) \/ s[i] # "{" THEN Invalid
      ELSE IF j <= Len(s) /\ s[j] = "}"
        THEN (IF SkipWs(s, j + 1) > Len(s) THEN [ok |-> TRUE, items |-> <<>>] ELSE Invalid)
      ELSE ScanMembers(s, i + 1, <<>>)

\* the keys of a sequence of items
Keys(items) == {items[i][1] : i \in DOMAIN items}

\* the dict a sequence of items stands for (no key repeats in this program)
AsDict(items) == {items[i] : i \in DOMAIN items}

\* the value of key k
Get(items, k) == (CHOOSE it \in AsDict(items) : it[1] = k)[2]

(* ---- state ------------------------------------------------------------ *)

VARIABLES
  clock,     \* the wall clock, in seconds after Epoch
  out_dir,   \* what the results path is: "absent", "dir" or "file"
  files,     \* the results directory: file name -> contents
  pc,        \* the statement of main() each call is about to run
  ts,        \* the local ts of each call
  result,    \* the local result of each call
  stdout,    \* what each call has printed
  raised,    \* the uncaught exception of each call: [at, exc]
  exitCode,  \* the exit status of the calls that have ended
  steps,     \* the statements each call has run, in order
  before     \* the names in the results directory when each call began

vars == <<clock, out_dir, files, pc, ts, result, stdout, raised, exitCode, steps, before>>

NoError == [at |-> "none", exc |-> "none"]

\* the results path is absent, an (empty) directory, or a file in the way
Init ==
  /\ clock = 0
  /\ out_dir \in {"absent", "dir", "file"}
  /\ files = [n \in {} |-> Empty]
  /\ pc = [p \in Procs |-> "strftime"]
  /\ ts = [p \in Procs |-> <<>>]
  /\ result = [p \in Procs |-> <<>>]
  /\ stdout = [p \in Procs |-> <<>>]
  /\ raised = [p \in Procs |-> NoError]
  /\ exitCode = [p \in {} |-> 0]
  /\ steps = [p \in Procs |-> <<>>]
  /\ before = [p \in Procs |-> {}]

(* ---- the statements of main() ----------------------------------------- *)

\* a slip in the order: print moved before the file write
NextStmtPrintFirst(stmt) ==
  CASE stmt = "strftime" -> "build"
    [] stmt = "build"    -> "makedirs"
    [] stmt = "makedirs" -> "print"
    [] stmt = "print"    -> "open"
    [] stmt = "open"     -> "dump"
    [] stmt = "dump"     -> "return"

\* the statement that follows stmt in the body of main()
NextStmt(stmt) ==
  CASE stmt = "strftime" -> "build"
    [] stmt = "build"    -> "makedirs"
    [] stmt = "makedirs" -> "open"
    [] stmt = "open"     -> "dump"
    [] stmt = "dump"     -> "print"
    [] stmt = "print"    -> "return"

\* a slip in the error handling: the exception caught and dropped, so the
\* call ends with exit status 0
RaiseSwallowed(p, stmt, exc) ==
  /\ pc' = [pc EXCEPT ![p] = "exited"]
  /\ raised' = [raised EXCEPT ![p] = [at |-> stmt, exc |-> exc]]
  /\ exitCode' = (p :> 0) @@ exitCode
  /\ steps' = [steps EXCEPT ![p] = Append(@, stmt)]

\* an uncaught exception ends the call: traceback, exit status 1
Raise(p, stmt, exc) ==
  /\ pc' = [pc EXCEPT ![p] = "exited"]
  /\ raised' = [raised EXCEPT ![p] = [at |-> stmt, exc |-> exc]]
  /\ exitCode' = (p :> 1) @@ exitCode
  /\ steps' = [steps EXCEPT ![p] = Append(@, stmt)]

\* the statement ran: on to the next one; after the last one main() returns
\* and the call exits 0
Goto(p, stmt) ==
  /\ steps' = [steps EXCEPT ![p] = Append(@, stmt)]
  /\ UNCHANGED raised
  /\ IF NextStmt(stmt) = "return"
       THEN /\ pc' = [pc EXCEPT ![p] = "exited"]
            /\ exitCode' = (p :> 0) @@ exitCode
       ELSE /\ pc' = [pc EXCEPT ![p] = NextStmt(stmt)]
            /\ UNCHANGED exitCode

\* the passing of time
Tick ==
  /\ clock < MaxClock
  /\ clock' = clock + 1
  /\ UNCHANGED <<out_dir, files, pc, ts, result, stdout, raised, exitCode, steps, before>>

\* ts = time.strftime("%Y%m%d-%H%M%S")
ReadTs(p) ==
  /\ pc[p] = "strftime"
  /\ ts' = [ts EXCEPT ![p] = strftime(clock)]
  /\ before' = [before EXCEPT ![p] = DOMAIN files]
  /\ Goto(p, "strftime")
  /\ UNCHANGED <<clock, out_dir, files, result, stdout>>

\* a slip in the record: the clock read a second time for the timestamp field
BuildRereadsClock(p) ==
  /\ pc[p] = "build"
  /\ result' = [result EXCEPT ![p] = BuildResult(strftime(clock))]
  /\ Goto(p, "build")
  /\ UNCHANGED <<clock, out_dir, files, ts, stdout, before>>

\* result = {...}
Build(p) ==
  /\ pc[p] = "build"
  /\ result' = [result EXCEPT ![p] = BuildResult(ts[p])]
  /\ Goto(p, "build")
  /\ UNCHANGED <<clock, out_dir, files, ts, stdout, before>>

\* a slip in the directory creation: exist_ok left out
MakeDirsNoExistOk(p, ok) ==
  /\ pc[p] = "makedirs"
  /\ IF ~ok
       THEN Raise(p, "makedirs", "PermissionError") /\ UNCHANGED out_dir
     ELSE IF out_dir # "absent"
       THEN Raise(p, "makedirs", "FileExistsError") /\ UNCHANGED out_dir
     ELSE out_dir' = "dir" /\ Goto(p, "makedirs")
  /\ UNCHANGED <<clock, files, ts, result, stdout, before>>

\* os.makedirs(out_dir, exist_ok=True); ok = FALSE: the system refuses
MakeDirs(p, ok) ==
  /\ pc[p] = "makedirs"
  /\ IF ~ok
       THEN Raise(p, "makedirs", "PermissionError") /\ UNCHANGED out_dir
     ELSE IF out_dir = "file"
       THEN Raise(p, "makedirs", "FileExistsError") /\ UNCHANGED out_dir
     ELSE out_dir' = "dir" /\ Goto(p, "makedirs")
  /\ UNCHANGED <<clock, files, ts, result, stdout, before>>

\* open(os.path.join(out_dir, f"swebench-{ts}.json"), "w"): creates the file
\* or truncates it; ok = FALSE: the system refuses
Open(p, ok) ==
  /\ pc[p] = "open"
  /\ IF ok /\ out_dir = "dir"
       THEN /\ files' = (FileName(ts[p]) :> Empty) @@ files
            /\ Goto(p, "open")
       ELSE /\ Raise(p, "open", "OSError")
            /\ UNCHANGED files
  /\ UNCHANGED <<clock, out_dir, ts, result, stdout, before>>

\* json.dump(result, f, indent=2) and the close of f at the end of the with
\* block, which writes the buffered text from offset 0; ok = FALSE: the
\* write fails and the file stays as it is
Dump(p, ok) ==
  /\ pc[p] = "dump"
  /\ IF ok
       THEN /\ files' = [files EXCEPT ![FileName(ts[p])] = Dumps(result[p], 2)]
            /\ Goto(p, "dump")
       ELSE /\ Raise(p, "dump", "OSError")
            /\ UNCHANGED files
  /\ UNCHANGED <<clock, out_dir, ts, result, stdout, before>>

\* print(json.dumps(result))
PrintResult(p) ==
  /\ pc[p] = "print"
  /\ stdout' = [stdout EXCEPT ![p] = Dumps(result[p], -1) \o <<"\n">>]
  /\ Goto(p, "print")
  /\ UNCHANGED <<clock, out_dir, files, ts, result, before>>

main(p) ==
  \/ ReadTs(p)
  \/ Build(p)
  \/ \E ok \in BOOLEAN : MakeDirs(p, ok)
  \/ \E ok \in BOOLEAN : Open(p, ok)
  \/ \E ok \in BOOLEAN : Dump(p, ok)
  \/ PrintResult(p)

\* calls as separate processes, interleaved at will
Next ==
  \/ Tick
  \/ \E p \in Procs : main(p)

Spec == Init /\ [][Next]_vars

\* no other call is under way
Alone(p) == \A q \in Procs \ {p} : pc[q] \in {"strftime", "exited"}

\* calls one after the other
NextSeq ==
  \/ Tick
  \/ \E p \in Procs : Alone(p) /\ main(p)

SpecSeq == Init /\ [][NextSeq]_vars

(* ---- what the claims speak of ------------------------------------------ *)

\* the path a call writes, within the results directory
Path(p) == FileName(ts[p])

\* the call has ended with exit status 0
Exited0(p) == pc[p] = "exited" /\ p \in DOMAIN exitCode /\ exitCode[p] = 0

\* the set of elements of a sequence
Range(seq) == {seq[i] : i \in DOMAIN seq}

\* no call is between open() and the close of its file, and no write failed
\* after its open() had truncated the file
NoWriteUnderWay == \A q \in Procs : pc[q] # "dump" /\ raised[q].at # "dump"

\* the body of main(), statement by statement
Order == <<"strftime", "build", "makedirs", "open", "dump", "print">>

IsPrefix(a, b) == Len(a) <= Len(b) /\ a = SubSeq(b, 1, Len(a))

AllKeys == {K_timestamp, K_instances, K_resolved, K_score}

\* C1 (as claimed): every call that exits 0 has added exactly one file to the
\* results directory: when the call ends, the directory holds the names it
\* held when the call began plus swebench-<ts>.json, which was not among them.
C1_ExactlyOneNewFile ==
  [][\A p \in Procs :
       (pc[p] # "exited" /\ pc'[p] = "exited" /\ exitCode'[p] = 0) =>
         /\ Path(p) \notin before[p]
         /\ DOMAIN files' = before[p] \cup {Path(p)}]_vars

\* C2: two calls that read distinct timestamps write two distinct files,
\* both present once both calls have exited 0, and no step of a call changes
\* or removes the file of a finished call that read another timestamp.
C2_DistinctTimestampsKeepBothFiles ==
  /\ [](\A p, q \in Procs :
          (p # q /\ Exited0(p) /\ Exited0(q) /\ ts[p] # ts[q]) =>
            /\ Path(p) # Path(q)
            /\ {Path(p), Path(q)} \subseteq DOMAIN files)
  /\ [][\A p, q \in Procs :
          (/\ p # q
           /\ Exited0(p)
           /\ pc[q] \notin {"strftime", "exited"}
           /\ ts[q] # ts[p]
           /\ pc'[q] # pc[q]) =>
            /\ Path(p) \in DOMAIN files'
            /\ files'[Path(p)] = files[Path(p)]]_vars

C2_Witness ==
  \E p, q \in Procs :
    /\ Exited0(p) /\ Exited0(q) /\ ts[p] # ts[q]
    /\ files[Path(p)] = Dumps(result[p], 2)
    /\ files[Path(q)] = Dumps(result[q], 2)

\* C3: for every call that has exited 0, the line it printed parses, the
\* file at its path exists and, unless a write to it is under way or has
\* failed, parses to the same record as the printed line, although the two
\* texts differ (indentation against the compact form).
C3_FileParsesToPrintedRecord ==
  \A p \in Procs :
    Exited0(p) =>
      LET printed == Loads(stdout[p])
          written == Loads(files[Path(p)])
      IN  /\ printed.ok
          /\ Path(p) \in DOMAIN files
          /\ NoWriteUnderWay => files[Path(p)] # Empty
          /\ files[Path(p)] # Empty =>
               /\ written.ok
               /\ AsDict(written.items) = AsDict(printed.items)
               /\ Keys(written.items) = Keys(printed.items)
               /\ files[Path(p)] \o <<"\n">> # stdout[p]

C3_Witness ==
  \E p \in Procs :
    /\ Exited0(p)
    /\ files[Path(p)] # Empty
    /\ Loads(files[Path(p)]).ok
    /\ Loads(files[Path(p)]).items = result[p]
    /\ Loads(stdout[p]).items = result[p]

\* the fields instances, resolved and score of a JSON text are the integer 0
ZeroFields(text) ==
  LET record == Loads(text)
  IN  /\ record.ok
      /\ {K_instances, K_resolved, K_score} \subseteq Keys(record.items)
      /\ \A k \in {K_instances, K_resolved, K_score} :
           Get(record.items, k) = JInt(0)

\* C4: in every record written to a file and in every record printed, the
\* fields instances, resolved and score are the integer 0.
C4_CountsAreZero ==
  /\ \A p \in Procs : stdout[p] # <<>> => ZeroFields(stdout[p])
  /\ \A n \in DOMAIN files : files[n] # Empty => ZeroFields(files[n])

C4_Witness ==
  /\ clock > 0
  /\ \E p, q \in Procs :
       /\ p # q /\ Exited0(p) /\ pc[q] = "exited"
       /\ ts[p] = strftime(clock)
       /\ ZeroFields(stdout[p]) /\ ZeroFields(files[Path(p)])

\* C5: every printed line is a JSON object with exactly the four keys
\* timestamp, instances, resolved and score, each once.
C5_ExactlyFourKeys ==
  \A p \in Procs :
    stdout[p] # <<>> =>
      LET printed == Loads(stdout[p])
      IN  /\ printed.ok
          /\ Keys(printed.items) = AllKeys
          /\ Len(printed.items) = 4

C5_Witness ==
  \E p \in Procs :
    /\ stdout[p] # <<>>
    /\ Keys(Loads(stdout[p]).items) = AllKeys

\* the call has run os.makedirs and it did not raise
MakeDirsDone(p) == "makedirs" \in Range(steps[p]) /\ raised[p].at # "makedirs"

\* C6: once os.makedirs has returned in a call the results directory exists,
\* whether it existed before or not, and no call ever fails because the
\* directory exists: FileExistsError is raised only when the results path
\* is a file, never when it is a directory.
C6_MakeDirsIdempotent ==
  \A p \in Procs :
    /\ MakeDirsDone(p) => out_dir = "dir"
    /\ raised[p].exc = "FileExistsError" => out_dir = "file"

C6_Witness ==
  /\ out_dir = "dir"
  /\ \A p \in Procs : MakeDirsDone(p) /\ Exited0(p)

\* the number of times stmt occurs in a sequence of statements
Count(seq, stmt) == Cardinality({i \in DOMAIN seq : seq[i] = stmt})

\* C7: a call exits 0 exactly when neither the directory creation nor the
\* file write (open, dump and close) raised, having run all of them; an
\* error in one of them ends the call at once with exit status 1: the
\* failing statement was attempted once and is the last one the call ran.
C7_ExitStatus ==
  \A p \in Procs :
    /\ pc[p] # "exited" => (p \notin DOMAIN exitCode /\ raised[p] = NoError)
    /\ pc[p] = "exited" =>
         /\ p \in DOMAIN exitCode
         /\ exitCode[p] = 0 <=>
              (/\ {"makedirs", "open", "dump"} \subseteq Range(steps[p])
               /\ raised[p].at \notin {"makedirs", "open", "dump"})
         /\ exitCode[p] # 0 =>
              /\ exitCode[p] = 1
              /\ raised[p].at \in {"makedirs", "open", "dump"}
              /\ steps[p][Len(steps[p])] = raised[p].at
              /\ Count(steps[p], raised[p].at) = 1

C7_Witness ==
  \E p, q \in Procs :
    /\ pc[p] = "exited" /\ exitCode[p] = 0
    /\ pc[q] = "exited" /\ exitCode[q] = 1 /\ raised[q].at = "dump"

\* C8: a call runs its statements in the order strftime, build, makedirs,
\* open, dump, print; whatever is printed is printed after the call's file
\* write, a call whose makedirs raised has opened no file and printed
\* nothing, a call whose file write raised has printed nothing, and as long
\* as no call is past makedirs the results directory holds no file.
C8_StatementOrder ==
  /\ \A p \in Procs :
       /\ IsPrefix(steps[p], Order)
       /\ stdout[p] # <<>> =>
            /\ {"open", "dump"} \subseteq Range(steps[p])
            /\ raised[p] = NoError
            /\ Path(p) \in DOMAIN files
       /\ raised[p].at = "makedirs" =>
            /\ stdout[p] = <<>>
            /\ "open" \notin Range(steps[p])
       /\ raised[p].at \in {"open", "dump"} => stdout[p] = <<>>
  /\ (\A p \in Procs : ~MakeDirsDone(p)) => DOMAIN files = {}

C8_Witness ==
  \E p, q \in Procs :
    /\ steps[p] = Order /\ stdout[p] # <<>>
    /\ raised[q].at = "makedirs" /\ stdout[q] = <<>>

\* C9: every file swebench-T.json that holds a record holds one whose
\* timestamp field is T, and a call that has exited 0 has printed the
\* timestamp it read, which is the T of the path it wrote.
C9_TimestampNamesFile ==
  /\ \A n \in DOMAIN files :
       files[n] # Empty =>
         LET written == Loads(files[n])
         IN  /\ written.ok
             /\ K_timestamp \in Keys(written.items)
             /\ Get(written.items, K_timestamp).type = "str"
             /\ n = FileName(Get(written.items, K_timestamp).val)
  /\ \A p \in Procs :
       Exited0(p) =>
         /\ Get(Loads(stdout[p]).items, K_timestamp) = JStr(ts[p])
         /\ Path(p) \in DOMAIN files
         /\ NoWriteUnderWay => files[Path(p)] # Empty

C9_Witness ==
  /\ clock > 0
  /\ \E p \in Procs :
       /\ Exited0(p)
       /\ ts[p] # strftime(clock)
       /\ files[Path(p)] # Empty
       /\ Get(Loads(files[Path(p)]).items, K_timestamp) = JStr(ts[p])

\* the calls that have exited 0
Completed == {p \in Procs : Exited0(p)}

\* C10: the files the completed calls have produced are as many as the
\* distinct timestamps those calls read (calls that read the same timestamp
\* share one path), and every open() leaves its path empty, whatever an
\* earlier call had written there.
C10_OneFilePerTimestamp ==
  /\ [](Cardinality({n \in DOMAIN files : \E p \in Completed : n = Path(p)})
          = Cardinality({ts[p] : p \in Completed}))
  /\ [][\A p \in Procs :
          (pc[p] = "open" /\ pc'[p] = "dump") =>
            /\ Path(p) \in DOMAIN files'
            /\ files'[Path(p)] = Empty]_vars

C10_Witness ==
  /\ Completed = Procs
  /\ Cardinality(DOMAIN files) < NumCalls
  /\ \E p, q \in Procs : p # q /\ ts[p] = ts[q] /\ Path(p) = Path(q)

====
